---- MODULE Spec2Model ----
(***************************************************************************)
(* A model of the query engine of the simple CSV-backed database: the      *)
(* row codec (db.py parse_value / Table.read / Table.write), the predicate *)
(* parser (query.py), the validators and executors of INSERT, UPDATE,      *)
(* DELETE and SELECT, and the statement dispatch of simple_db.main.        *)
(*                                                                         *)
(* Text (a query fragment, a literal, a cell of a table file) is a         *)
(* sequence of symbols.  A symbol is one character where the code looks at *)
(* characters (quotes, blanks, digits, signs, comparison characters) and a *)
(* whole word otherwise (an identifier, a keyword, the inside of a string  *)
(* literal); a word never contains a quote, a blank, a digit or an         *)
(* operator character.                                                     *)
(***************************************************************************)
EXTENDS Integers, Sequences, FiniteSets, TLC

VARIABLES files, next_id, last, held

vars == <<files, next_id, last, held>>

-----------------------------------------------------------------------------
(* Bounds of the model *)

\* INSERT is disabled once a table's next_id has reached this value.
MaxNextId == 3

-----------------------------------------------------------------------------
(* Symbols and text *)

SQ == "'"
DQ == "\""
SP == " "

Digits == <<"0", "1", "2", "3", "4", "5", "6", "7", "8", "9">>

IsDigit(c) == \E i \in 1..10 : Digits[i] = c

DigitVal(c) == (CHOOSE i \in 1..10 : Digits[i] = c) - 1

\* str.lower() on one symbol: the mixed-case words of the model's alphabet.
Lower(c) ==
  CASE c = "Name" -> "name"
    [] c = "Age" -> "age"
    [] c = "__ID" -> "__id"
    [] c = "Users" -> "users"
    [] c = "OR" -> "or"
    [] c = "AND" -> "and"
    [] c = "Bo" -> "bo"
    [] OTHER -> c

LowerText(s) == [i \in 1..Len(s) |-> Lower(s[i])]

RECURSIVE LStrip(_)
LStrip(s) == IF s # <<>> /\ Head(s) = SP THEN LStrip(Tail(s)) ELSE s

RECURSIVE RStrip(_)
RStrip(s) ==
  IF s # <<>> /\ s[Len(s)] = SP THEN RStrip(SubSeq(s, 1, Len(s) - 1)) ELSE s

\* str.strip()
Strip(s) == RStrip(LStrip(s))

\* query.is_quoted_string; string[0] raises IndexError on the empty string,
\* which the callers of this operator test with IsQuotedRaises.
IsQuotedRaises(s) == s = <<>>

IsQuotedString(s) ==
  \/ (s[1] = DQ /\ s[Len(s)] = DQ)
  \/ (s[1] = SQ /\ s[Len(s)] = SQ)

\* query.unquote_string
UnquoteRaises(s) == IsQuotedRaises(Strip(s))

Unquoted(strip) ==
  IF IsQuotedString(strip) THEN SubSeq(strip, 2, Len(strip) - 1) ELSE strip

UnquoteString(s) == Unquoted(Strip(s))

\* int(text): blanks around, an optional sign, at least one digit.
Unsigned(t) ==
  IF t # <<>> /\ (t[1] = "+" \/ t[1] = "-") THEN Tail(t) ELSE t

IntBody(s) == Unsigned(Strip(s))

AllDigits(d) == d # <<>> /\ \A i \in 1..Len(d) : IsDigit(d[i])

IsIntText(s) == AllDigits(IntBody(s))

RECURSIVE DigitsVal(_)
DigitsVal(d) ==
  IF d = <<>> THEN 0
  ELSE 10 * DigitsVal(SubSeq(d, 1, Len(d) - 1)) + DigitVal(d[Len(d)])

Signed(t, n) == IF t[1] = "-" THEN 0 - n ELSE n

IntOf(s) == Signed(Strip(s), DigitsVal(IntBody(s)))

\* str(n) for an int n
RECURSIVE NatToText(_)
NatToText(n) ==
  IF n < 10 THEN <<Digits[n + 1]>>
  ELSE NatToText(n \div 10) \o <<Digits[(n % 10) + 1]>>

IntToText(n) == IF n < 0 THEN <<"-">> \o NatToText(0 - n) ELSE NatToText(n)

\* Lexicographic order of two str values (Python compares code points).
Rank(c) ==
  CASE c = SP -> 1
    [] c = DQ -> 2
    [] c = SQ -> 3
    [] IsDigit(c) -> 4 + DigitVal(c)
    [] c = "bo" -> 20
    [] c = "cy" -> 21
    [] OTHER -> 30

RECURSIVE TextLess(_, _)
TextLess(a, b) ==
  IF b = <<>> THEN FALSE
  ELSE IF a = <<>> THEN TRUE
  ELSE IF Rank(Head(a)) # Rank(Head(b)) THEN Rank(Head(a)) < Rank(Head(b))
  ELSE TextLess(Tail(a), Tail(b))

-----------------------------------------------------------------------------
(* Values, columns and the catalog *)

\* A Python value held in a row: an int or a str.
IntV(n) == [t |-> "int", v |-> n]
StrV(s) == [t |-> "str", v |-> s]

Column(name, type) == [name |-> name, type |-> type]

\* The catalog's tables and their columns; __id:int is the first column.
\* The tables of the model have int and str columns, so the float and
\* datetime branches of the codec, the validators and the comparison are not
\* part of it.
TableNames == <<"users", "items">>

Columns(t) ==
  IF t = "users"
  THEN <<Column(<<"__id">>, "int"), Column(<<"name">>, "str"),
         Column(<<"age">>, "int")>>
  ELSE <<Column(<<"__id">>, "int"), Column(<<"user_id">>, "int")>>

\* Database.get_table raises ValueError for an unknown name.
HasTable(t) == \E i \in 1..Len(TableNames) : TableNames[i] = t

\* Table.headers and Table.prefixed_headers
Headers(t) == [i \in 1..Len(Columns(t)) |-> LowerText(Columns(t)[i].name)]

PrefixedHeaders(t) ==
  [i \in 1..Len(Columns(t)) |-> <<t, ".">> \o LowerText(Columns(t)[i].name)]

\* name in list
InSeq(x, s) == \E i \in 1..Len(s) : s[i] = x

\* list.index(name): the first position of name, 0 standing for ValueError
\* (db.get_column_index, headers.index).
IndexOf(s, x) ==
  IF InSeq(x, s) THEN CHOOSE i \in 1..Len(s) :
                        s[i] = x /\ \A j \in 1..(i - 1) : s[j] # x
  ELSE 0

\* Table.get_column: the column of that exact name, ValueError (0) if none.
GetColumn(t, name) ==
  IndexOf([i \in 1..Len(Columns(t)) |-> Columns(t)[i].name], name)

\* The first exception raised by a sequence of steps, "none" if none raises.
RECURSIVE FirstErr(_)
FirstErr(errs) ==
  IF errs = <<>> THEN "none"
  ELSE IF Head(errs) # "none" THEN Head(errs)
  ELSE FirstErr(Tail(errs))

\* Two steps in sequence: the exception of the first, else what the second
\* gives.
Else(err, next) == IF err # "none" THEN err ELSE next

-----------------------------------------------------------------------------
(* Row codec and table I/O *)

\* db.parse_value: the exception it raises, then the value it returns.
ParseValueErr(value, column) ==
  IF value = <<>> THEN "none"
  ELSE IF column.type = "int"
       THEN (IF IsIntText(value) THEN "none" ELSE "ValueError")
  ELSE IF column.type = "str"
       THEN (IF UnquoteRaises(value) THEN "IndexError" ELSE "none")
  ELSE "none"

ParseValue(value, column) ==
  IF value = <<>>
  THEN (IF column.type = "int" THEN IntV(0) ELSE StrV(<<>>))
  ELSE IF column.type = "int" THEN IntV(IntOf(value))
  ELSE IF column.type = "str" THEN StrV(UnquoteString(value))
  ELSE StrV(value)

ResultSet(table_name, columns, rows) ==
  [table_name |-> table_name, columns |-> columns, rows |-> rows]

\* ResultSet.headers
RsHeaders(rs) == [i \in 1..Len(rs.columns) |-> LowerText(rs.columns[i].name)]

\* Table.read: csv rows after the header, each cell parsed by its column.
TableReadErr(t, fs) ==
  FirstErr([r \in 1..Len(fs[t]) |->
     FirstErr([i \in 1..Len(fs[t][r]) |->
        ParseValueErr(fs[t][r][i], Columns(t)[i])])])

TableRead(t, prefixed, fs) ==
  ResultSet(
    t,
    IF prefixed
    THEN [i \in 1..Len(Columns(t)) |->
            Column(<<t, ".">> \o Columns(t)[i].name, Columns(t)[i].type)]
    ELSE Columns(t),
    [r \in 1..Len(fs[t]) |->
       [i \in 1..Len(fs[t][r]) |-> ParseValue(fs[t][r][i], Columns(t)[i])]])

\* The cell Table.write produces for one value: str(value) for int and str.
FormatValue(value) ==
  IF value.t = "int" THEN IntToText(value.v) ELSE value.v

\* Table.write: refuses a result set of another table or other headers,
\* otherwise replaces the file by the formatted rows.
TableWriteErr(t, rs) ==
  IF rs.table_name # t THEN "ValueError"
  ELSE IF RsHeaders(rs) # Headers(t) THEN "ValueError"
  ELSE "none"

TableWrite(t, rs) ==
  [r \in 1..Len(rs.rows) |->
     [i \in 1..Len(rs.rows[r]) |-> FormatValue(rs.rows[r][i])]]

-----------------------------------------------------------------------------
(* Predicates and the result set operators *)

\* query.Where; an absent child (None) is the empty sequence, a present one
\* a sequence of one Where.
Where(left_hand, right_hand, operator) ==
  [left_hand |-> left_hand, right_hand |-> right_hand, operator |-> operator,
   or_where |-> <<>>, and_where |-> <<>>]

\* The comparison of two Python values by one operator: "true", "false", or
\* the exception raised (ordering an int against a str is a TypeError, an
\* operator outside the six is a ValueError).
ValueEq(a, b) == a.t = b.t /\ a.v = b.v

ValueLess(a, b) == IF a.t = "int" THEN a.v < b.v ELSE TextLess(a.v, b.v)

Bool(b) == IF b THEN "true" ELSE "false"

\* The four orderings, given a < b and b < a
Ordered(operator, ab, ba) ==
  IF operator = ">" THEN Bool(ba)
  ELSE IF operator = "<" THEN Bool(ab)
  ELSE IF operator = ">=" THEN Bool(~ab)
  ELSE Bool(~ba)

Compare(operator, a, b) ==
  IF operator \in {"=", "!="} THEN Bool(ValueEq(a, b) <=> operator = "=")
  ELSE IF ~(operator \in {">", "<", ">=", "<="}) THEN "ValueError"
  ELSE IF a.t # b.t THEN "TypeError"
  ELSE Ordered(operator, ValueLess(a, b), ValueLess(b, a))

ColumnNames(columns) == [i \in 1..Len(columns) |-> columns[i].name]

\* ResultSet.__satisfies_condition on one row: the root comparison only.
\* The right side is the value of the column of that name, else the literal
\* converted to the type of the left column.
RightErr(type, right_hand, ri) ==
  IF ri # 0 THEN "none"
  ELSE IF type = "str"
       THEN (IF UnquoteRaises(right_hand) THEN "IndexError" ELSE "none")
  ELSE IF type = "int"
       THEN (IF IsIntText(right_hand) THEN "none" ELSE "ValueError")
  ELSE "none"

RightValue(type, right_hand, row, ri) ==
  IF ri # 0 THEN row[ri]
  ELSE IF type = "str" THEN StrV(UnquoteString(right_hand))
  ELSE IF type = "int" THEN IntV(IntOf(right_hand))
  ELSE StrV(right_hand)

SatisfiesAt(where, row, columns, li, ri) ==
  IF li = 0 THEN "ValueError"
  ELSE Else(RightErr(columns[li].type, where.right_hand, ri),
            Compare(where.operator, row[li],
                    RightValue(columns[li].type, where.right_hand, row, ri)))

SatisfiesCondition(where, row, columns) ==
  SatisfiesAt(where, row, columns,
              IndexOf(ColumnNames(columns), where.left_hand),
              IndexOf(ColumnNames(columns), where.right_hand))

\* The test ResultSet.where applies to one row: root and AND-child, else root
\* or OR-child, else the root, with Python's short-circuit evaluation.
Child(where) ==
  IF where.and_where # <<>> THEN where.and_where[1] ELSE where.or_where[1]

ConnectMutant(where, root, child) ==
  IF where.and_where # <<>> THEN root
  ELSE IF where.or_where # <<>> THEN (IF root = "false" THEN child ELSE root)
  ELSE root

Connect(where, root, child) ==
  IF where.and_where # <<>> THEN (IF root = "true" THEN child ELSE root)
  ELSE IF where.or_where # <<>> THEN (IF root = "false" THEN child ELSE root)
  ELSE root

WhereAccepts(where, row, columns) ==
  Connect(where, SatisfiesCondition(where, row, columns),
          SatisfiesCondition(Child(where), row, columns))

\* The rows of a sequence whose test is "true", in order.
RECURSIVE KeepTrue(_, _)
KeepTrue(rows, tests) ==
  IF rows = <<>> THEN <<>>
  ELSE (IF Head(tests) = "true" THEN <<Head(rows)>> ELSE <<>>)
       \o KeepTrue(Tail(rows), Tail(tests))

\* The first test that is an exception, "none" if every test is a boolean.
TestsErr(tests) ==
  FirstErr([i \in 1..Len(tests) |->
              IF tests[i] \in {"true", "false"} THEN "none" ELSE tests[i]])

\* ResultSet.where
RsWhereTests(rs, where) ==
  [r \in 1..Len(rs.rows) |-> WhereAccepts(where, rs.rows[r], rs.columns)]

RsWhereErr(rs, where) == TestsErr(RsWhereTests(rs, where))

RsWhere(rs, where) ==
  ResultSet(rs.table_name, rs.columns,
            KeepTrue(rs.rows, RsWhereTests(rs, where)))

\* ResultSet.inner_join: the pairs of the cartesian product, left-major, each
\* kept iff __satisfies_condition holds of the ON predicate on the pair.
JoinPairsMutant(rs, other) ==
  [k \in 1..(Len(rs.rows) * Len(other.rows)) |->
     rs.rows[((k - 1) % Len(rs.rows)) + 1]
       \o other.rows[((k - 1) \div Len(rs.rows)) + 1]]

JoinPairs(rs, other) ==
  [k \in 1..(Len(rs.rows) * Len(other.rows)) |->
     rs.rows[((k - 1) \div Len(other.rows)) + 1]
       \o other.rows[((k - 1) % Len(other.rows)) + 1]]

PairTests(pairs, on, columns) ==
  [k \in 1..Len(pairs) |-> SatisfiesCondition(on, pairs[k], columns)]

JoinTests(rs, other, on) ==
  PairTests(JoinPairs(rs, other), on, rs.columns \o other.columns)

InnerJoinErr(rs, other, on) == TestsErr(JoinTests(rs, other, on))

InnerJoin(rs, other, on) ==
  ResultSet(<<rs.table_name, "INNER JOIN", other.table_name>>,
            rs.columns \o other.columns,
            KeepTrue(JoinPairs(rs, other), JoinTests(rs, other, on)))

-----------------------------------------------------------------------------
(* The predicate parser (query.py) *)

\* pat occurs in s at position i
OccursAt(s, pat, i) ==
  /\ i >= 1
  /\ i + Len(pat) - 1 <= Len(s)
  /\ \A j \in 1..Len(pat) : s[i + j - 1] = pat[j]

\* pat in s
Contains(s, pat) == \E i \in 1..Len(s) : OccursAt(s, pat, i)

\* str.count(pat): the non-overlapping occurrences, scanning from the left
RECURSIVE CountFrom(_, _, _)
CountFrom(s, pat, i) ==
  IF i > Len(s) THEN 0
  ELSE IF OccursAt(s, pat, i) THEN 1 + CountFrom(s, pat, i + Len(pat))
  ELSE CountFrom(s, pat, i + 1)

Count(s, pat) == CountFrom(s, pat, 1)

FirstOcc(s, pat) == CHOOSE i \in 1..Len(s) :
  OccursAt(s, pat, i) /\ \A j \in 1..(i - 1) : ~OccursAt(s, pat, j)

LastOcc(s, pat) == CHOOSE i \in 1..Len(s) :
  OccursAt(s, pat, i) /\ \A j \in (i + 1)..Len(s) : ~OccursAt(s, pat, j)

Before(s, i) == SubSeq(s, 1, i - 1)

After(s, pat, i) == SubSeq(s, i + Len(pat), Len(s))

\* The operators in the order __parse_condition tests them.
OperatorOrder == <<">=", "<=", "=", "!=", ">", "<">>

OperatorText(op) ==
  CASE op = ">=" -> <<">", "=">>
    [] op = "<=" -> <<"<", "=">>
    [] op = "!=" -> <<"!", "=">>
    [] OTHER -> <<op>>

\* The first operator of OperatorOrder that occurs in the text, 0 if none.
FoundOperator(part) ==
  IF \E k \in 1..6 : Contains(part, OperatorText(OperatorOrder[k]))
  THEN CHOOSE k \in 1..6 :
         /\ Contains(part, OperatorText(OperatorOrder[k]))
         /\ \A j \in 1..(k - 1) : ~Contains(part, OperatorText(OperatorOrder[j]))
  ELSE 0

\* query.__parse_condition; "left, right = part.split(op)" raises ValueError
\* unless the operator occurs exactly once.
SplitAt(part, op) ==
  [left |-> Strip(Before(part, FirstOcc(part, op))),
   right |-> Strip(After(part, op, FirstOcc(part, op)))]

\* The right side opens a quote and does not close it.
MissingQuote(right) ==
  /\ right # <<>>
  /\ \/ (right[1] = SQ /\ right[Len(right)] # SQ)
     \/ (right[1] = DQ /\ right[Len(right)] # DQ)

SplitErr(part, op) ==
  IF Count(part, op) # 1 THEN "ValueError"
  ELSE IF MissingQuote(SplitAt(part, op).right) THEN "ValueError"
  ELSE "none"

ConditionErr(part, k) ==
  IF k = 0 THEN "ValueError"
  ELSE SplitErr(part, OperatorText(OperatorOrder[k]))

ParseConditionErr(query_part) ==
  ConditionErr(Strip(query_part), FoundOperator(Strip(query_part)))

WhereOf(sides, operator) == Where(sides.left, sides.right, operator)

Condition(part, k) ==
  WhereOf(SplitAt(part, OperatorText(OperatorOrder[k])), OperatorOrder[k])

ParseCondition(query_part) ==
  Condition(Strip(query_part), FoundOperator(Strip(query_part)))

\* query.parse_where: at most one " or " / " and "; the text is split at the
\* keyword (case-insensitively) and each side parsed as one comparison.
OrText == <<SP, "or", SP>>
AndText == <<SP, "and", SP>>

SplitErrAt(part, kw, at) ==
  Else(ParseConditionErr(Before(part, at)),
       ParseConditionErr(After(part, kw, at)))

KeywordErr(part, lower) ==
  IF Count(lower, OrText) + Count(lower, AndText) > 1 THEN "ValueError"
  ELSE IF Contains(lower, OrText)
       THEN SplitErrAt(part, OrText, LastOcc(lower, OrText))
  ELSE IF Contains(lower, AndText)
       THEN SplitErrAt(part, AndText, LastOcc(lower, AndText))
  ELSE ParseConditionErr(part)

ParseWhereErr(query_part) ==
  KeywordErr(Strip(query_part), LowerText(Strip(query_part)))

WithOr(first, second) == [first EXCEPT !.or_where = <<second>>]

WithAnd(first, second) == [first EXCEPT !.and_where = <<second>>]

KeywordWhere(part, lower) ==
  IF Contains(lower, OrText)
  THEN WithOr(ParseCondition(Before(part, LastOcc(lower, OrText))),
              ParseCondition(After(part, OrText, LastOcc(lower, OrText))))
  ELSE IF Contains(lower, AndText)
  THEN WithAnd(ParseCondition(Before(part, LastOcc(lower, AndText))),
               ParseCondition(After(part, AndText, LastOcc(lower, AndText))))
  ELSE ParseCondition(part)

ParseWhere(query_part) ==
  KeywordWhere(Strip(query_part), LowerText(Strip(query_part)))

-----------------------------------------------------------------------------
(* The validator of a predicate (db.validate_where) *)

\* text.split("."): the parts between the dots
RECURSIVE SplitDot(_)
SplitDot(s) ==
  IF ~Contains(s, <<".">>) THEN <<s>>
  ELSE <<Before(s, FirstOcc(s, <<".">>))>>
       \o SplitDot(After(s, <<".">>, FirstOcc(s, <<".">>)))

\* A table name is one word; a text of any other shape names no table.
AsWord(s) == IF Len(s) = 1 THEN s[1] ELSE "?"

\* The check of a literal against a column type, as the validators of WHERE,
\* INSERT and UPDATE all make it.
LiteralErr(type, value) ==
  IF type = "str"
  THEN (IF IsQuotedRaises(value) THEN "IndexError"
        ELSE IF ~IsQuotedString(value) THEN "ValueError" ELSE "none")
  ELSE IF type = "int"
  THEN (IF ~IsIntText(value) THEN "ValueError" ELSE "none")
  ELSE "none"

\* "if '.' in name: table, column = name.split('.')", else the given table
Qualified(name) == Contains(name, <<".">>)

SplitRaises(name) == Qualified(name) /\ Len(SplitDot(name)) # 2

TableOf(name, table_name) ==
  IF Qualified(name) THEN AsWord(SplitDot(name)[1]) ELSE table_name

ColumnOf(name) == IF Qualified(name) THEN SplitDot(name)[2] ELSE name

ValidateRightColumn(left_type, right_table, rc) ==
  IF rc = 0 THEN "ValueError"
  ELSE IF left_type # Columns(right_table)[rc].type THEN "ValueError"
  ELSE "none"

ValidateRight(right, left_type, right_table) ==
  IF SplitRaises(right) THEN "ValueError"
  ELSE IF ~HasTable(right_table) THEN "ValueError"
  ELSE ValidateRightColumn(left_type, right_table,
                           GetColumn(right_table, ColumnOf(right)))

ValidateLeftColumn(where, headers, left_table, lc) ==
  IF lc = 0 THEN "ValueError"
  ELSE IF InSeq(where.right_hand, headers)
  THEN ValidateRight(where.right_hand, Columns(left_table)[lc].type,
                     TableOf(where.right_hand, left_table))
  ELSE LiteralErr(Columns(left_table)[lc].type, where.right_hand)

ValidateLeft(where, headers, left_table) ==
  IF SplitRaises(where.left_hand) THEN "ValueError"
  ELSE IF ~HasTable(left_table) THEN "ValueError"
  ELSE ValidateLeftColumn(where, headers, left_table,
                          GetColumn(left_table, ColumnOf(where.left_hand)))

ValidateComparisonErr(where, headers, table_name) ==
  IF ~InSeq(where.left_hand, headers) THEN "ValueError"
  ELSE ValidateLeft(where, headers, TableOf(where.left_hand, table_name))

RECURSIVE ValidateWhereErr(_, _, _)
ValidateWhereErr(where, headers, table_name) ==
  FirstErr(<<
    ValidateComparisonErr(where, headers, table_name),
    IF where.and_where # <<>>
    THEN ValidateWhereErr(where.and_where[1], headers, table_name)
    ELSE "none",
    IF where.or_where # <<>>
    THEN ValidateWhereErr(where.or_where[1], headers, table_name)
    ELSE "none">>)

-----------------------------------------------------------------------------
(* INSERT (query_insert.py) *)

\* The non-empty elements of a list, in order ("if sanitized:").
RECURSIVE NonEmpty(_)
NonEmpty(parts) ==
  IF parts = <<>> THEN <<>>
  ELSE (IF Head(parts) # <<>> THEN <<Head(parts)>> ELSE <<>>)
       \o NonEmpty(Tail(parts))

\* query_insert.parse_insert on a statement whose two parenthesised groups
\* are given as their comma-separated parts: the table name and the fields
\* are lowercased, the values keep their text.
ParseInsert(q) ==
  [table |-> Lower(q.table),
   fields |-> NonEmpty([i \in 1..Len(q.fields) |->
                          LowerText(Strip(q.fields[i]))]),
   values |-> NonEmpty([i \in 1..Len(q.values) |-> Strip(q.values[i])])]

\* The per-field checks Insert.validate and Update.validate share: the field
\* is a header of the table, is found by Table.get_column, and its value is a
\* literal of the column's type.
FieldErr(table, field, value) ==
  IF ~InSeq(field, Headers(table)) THEN "ValueError"
  ELSE IF GetColumn(table, field) = 0 THEN "ValueError"
  ELSE LiteralErr(Columns(table)[GetColumn(table, field)].type, value)

\* Insert.validate
InsertValidateErr(ins) ==
  IF Len(ins.fields) # Len(ins.values) THEN "ValueError"
  ELSE IF ~HasTable(ins.table) THEN "ValueError"
  ELSE IF InSeq(<<"__id">>, ins.fields) THEN "ValueError"
  ELSE FirstErr([i \in 1..Len(ins.fields) |->
                   FieldErr(ins.table, ins.fields[i], ins.values[i])])

\* Table.create_row: the new row, built column by column; it takes the
\* table's next_id as __id and leaves next_id one larger (CreateRowNextId).
CreateRowErr(t, values, fields) ==
  FirstErr([c \in 1..Len(Columns(t)) |->
    IF Columns(t)[c].name = <<"__id">> THEN "none"
    ELSE IF IndexOf(fields, Columns(t)[c].name) = 0 THEN "none"
    ELSE ParseValueErr(values[IndexOf(fields, Columns(t)[c].name)],
                       Columns(t)[c])])

CreateRow(t, values, fields, nid) ==
  [c \in 1..Len(Columns(t)) |->
    IF Columns(t)[c].name = <<"__id">> THEN IntV(nid)
    ELSE IF IndexOf(fields, Columns(t)[c].name) = 0 THEN StrV(<<>>)
    ELSE ParseValue(values[IndexOf(fields, Columns(t)[c].name)],
                    Columns(t)[c])]

CreateRowNextIdMutant(nid) == nid

CreateRowNextId(nid) == nid + 1

\* Insert.execute: read, append the created row, write.
InsertExecuteErr(ins, fs) ==
  Else(TableReadErr(ins.table, fs),
    Else(CreateRowErr(ins.table, ins.values, ins.fields),
      TableWriteErr(ins.table, TableRead(ins.table, FALSE, fs))))

InsertAppend(rs, row) == [rs EXCEPT !.rows = rs.rows \o <<row>>]

InsertExecute(ins, fs, nid) ==
  [files |-> [fs EXCEPT ![ins.table] =
                TableWrite(ins.table,
                  InsertAppend(TableRead(ins.table, FALSE, fs),
                               CreateRow(ins.table, ins.values, ins.fields,
                                         nid[ins.table])))],
   next_id |-> [nid EXCEPT ![ins.table] = CreateRowNextId(nid[ins.table])],
   result |-> <<>>]

-----------------------------------------------------------------------------
(* UPDATE (query_update.py) *)

\* query_update.parse_update on a statement whose SET part is given as its
\* comma-separated assignments: "field, value = assignment.split('=')" raises
\* ValueError unless there is exactly one "=".
Assignments(q) == NonEmpty([i \in 1..Len(q.sets) |-> Strip(q.sets[i])])

ParseUpdateErr(q) ==
  FirstErr([i \in 1..Len(Assignments(q)) |->
              IF Count(Assignments(q)[i], <<"=">>) # 1 THEN "ValueError"
              ELSE "none"]
           \o <<IF Strip(q.where) # <<>> THEN ParseWhereErr(q.where)
                ELSE "none">>)

ParseUpdate(q) ==
  LET a == Assignments(q)
  IN [table |-> Lower(q.table),
      fields |-> [i \in 1..Len(a) |->
                    LowerText(Strip(Before(a[i], FirstOcc(a[i], <<"=">>))))],
      values |-> [i \in 1..Len(a) |->
                    Strip(After(a[i], <<"=">>, FirstOcc(a[i], <<"=">>)))],
      where |-> IF Strip(q.where) # <<>> THEN <<ParseWhere(q.where)>>
                ELSE <<>>]

\* Update.validate
UpdateValidateErr(upd) ==
  IF ~HasTable(upd.table) THEN "ValueError"
  ELSE IF Len(upd.fields) # Len(upd.values) THEN "ValueError"
  ELSE FirstErr([i \in 1..Len(upd.fields) |->
                   FieldErr(upd.table, upd.fields[i], upd.values[i])]
                \o <<IF upd.where # <<>>
                     THEN ValidateWhereErr(upd.where[1], Headers(upd.table),
                                           upd.table)
                     ELSE "none">>)

\* The rows a mutation's WHERE selects (all rows without WHERE), and the
\* __id values of those rows: the affected list.
Filtered(rs, where) == IF where # <<>> THEN RsWhere(rs, where[1]) ELSE rs

FilteredErr(rs, where) ==
  IF where # <<>> THEN RsWhereErr(rs, where[1]) ELSE "none"

AffectedIds(filtered) ==
  [r \in 1..Len(filtered.rows) |-> filtered.rows[r][1].v]

\* "if not isinstance(id, int): raise ValueError"
AffectedIdsErr(filtered) ==
  IF \E r \in 1..Len(filtered.rows) : filtered.rows[r][1].t # "int"
  THEN "ValueError" ELSE "none"

\* The SET assignments applied to one row, in the order of the SET list.
RECURSIVE SetFields(_, _, _, _)
SetFields(row, t, fields, values) ==
  IF fields = <<>> THEN row
  ELSE SetFields(
         [row EXCEPT ![IndexOf(Headers(t), Head(fields))] =
            ParseValue(Head(values),
                       Columns(t)[IndexOf(Headers(t), Head(fields))])],
         t, Tail(fields), Tail(values))

SetFieldsErr(t, fields, values) ==
  FirstErr([i \in 1..Len(fields) |->
    IF IndexOf(Headers(t), fields[i]) = 0 THEN "ValueError"
    ELSE ParseValueErr(values[i], Columns(t)[IndexOf(Headers(t), fields[i])])])

\* Update.execute: read, filter, collect the affected ids, set the fields of
\* the affected rows, write.
UpdateRowsErr(upd, rs, filtered) ==
  Else(AffectedIdsErr(filtered),
    Else(IF AffectedIds(filtered) # <<>>
         THEN SetFieldsErr(upd.table, upd.fields, upd.values) ELSE "none",
      TableWriteErr(upd.table, rs)))

UpdateReadErr(upd, rs) ==
  Else(FilteredErr(rs, upd.where),
       UpdateRowsErr(upd, rs, Filtered(rs, upd.where)))

UpdateExecuteErr(upd, fs) ==
  Else(TableReadErr(upd.table, fs),
       UpdateReadErr(upd, TableRead(upd.table, FALSE, fs)))

UpdateRows(upd, rs, affected_ids) ==
  [rs EXCEPT !.rows =
     [r \in 1..Len(rs.rows) |->
        IF InSeq(rs.rows[r][1].v, affected_ids)
        THEN SetFields(rs.rows[r], upd.table, upd.fields, upd.values)
        ELSE rs.rows[r]]]

UpdateWrite(upd, fs, nid, rs, affected_ids) ==
  [files |-> [fs EXCEPT ![upd.table] =
                TableWrite(upd.table, UpdateRows(upd, rs, affected_ids))],
   next_id |-> nid,
   result |-> affected_ids]

UpdateRead(upd, fs, nid, rs) ==
  UpdateWrite(upd, fs, nid, rs, AffectedIds(Filtered(rs, upd.where)))

UpdateExecute(upd, fs, nid) ==
  UpdateRead(upd, fs, nid, TableRead(upd.table, FALSE, fs))

-----------------------------------------------------------------------------
(* DELETE (query_delete.py) *)

\* query_delete.parse_delete
ParseDeleteErr(q) ==
  IF Strip(q.where) # <<>> THEN ParseWhereErr(q.where) ELSE "none"

ParseDelete(q) ==
  [table |-> Lower(q.table),
   where |-> IF Strip(q.where) # <<>> THEN <<ParseWhere(q.where)>> ELSE <<>>]

\* Delete.validate: the table exists and the left side of the root comparison
\* is a header; it does not call validate_where.
DeleteValidateErr(del) ==
  IF ~HasTable(del.table) THEN "ValueError"
  ELSE IF del.where # <<>> /\ ~InSeq(del.where[1].left_hand, Headers(del.table))
       THEN "ValueError"
  ELSE "none"

\* Delete.execute: read, filter, collect the affected ids, drop their rows,
\* write.
DeleteReadErr(del, rs) ==
  Else(FilteredErr(rs, del.where),
    Else(AffectedIdsErr(Filtered(rs, del.where)),
      TableWriteErr(del.table, rs)))

DeleteExecuteErr(del, fs) ==
  Else(TableReadErr(del.table, fs),
       DeleteReadErr(del, TableRead(del.table, FALSE, fs)))

RECURSIVE DropIds(_, _)
DropIds(rows, ids) ==
  IF rows = <<>> THEN <<>>
  ELSE (IF InSeq(Head(rows)[1].v, ids) THEN <<>> ELSE <<Head(rows)>>)
       \o DropIds(Tail(rows), ids)

DeleteWriteMutant(del, fs, nid, rs, affected_ids) ==
  [files |-> [fs EXCEPT ![del.table] =
                TableWrite(del.table,
                           [rs EXCEPT !.rows = DropIds(rs.rows, affected_ids)])],
   next_id |-> [nid EXCEPT ![del.table] =
                  1 + Len(DropIds(rs.rows, affected_ids))],
   result |-> affected_ids]

DeleteWrite(del, fs, nid, rs, affected_ids) ==
  [files |-> [fs EXCEPT ![del.table] =
                TableWrite(del.table,
                           [rs EXCEPT !.rows = DropIds(rs.rows, affected_ids)])],
   next_id |-> nid,
   result |-> affected_ids]

DeleteRead(del, fs, nid, rs) ==
  DeleteWrite(del, fs, nid, rs, AffectedIds(Filtered(rs, del.where)))

DeleteExecute(del, fs, nid) ==
  DeleteRead(del, fs, nid, TableRead(del.table, FALSE, fs))

-----------------------------------------------------------------------------
(* SELECT (query_select.py) *)

\* The limit simple_db.main passes to Select.set_default_limit.
DefaultLimit == 100

\* The text parse_select hands to parse_where for JOIN ... ON: it ends at the
\* WHERE keyword; without a WHERE nothing ends it, and it runs to the end of
\* the query, over ORDER BY and LIMIT.
OrderText(q) ==
  IF q.order # <<>>
  THEN <<SP, "order", SP, "by", SP>> \o q.order[1] \o <<SP, q.order[2]>>
  ELSE <<>>

LimitText(q) == IF q.limit # <<>> THEN <<SP, "limit", SP>> \o q.limit ELSE <<>>

OnText(q) ==
  IF Strip(q.where) # <<>> THEN q.on ELSE q.on \o OrderText(q) \o LimitText(q)

\* query_select.parse_select on a statement given by its clauses: the field
\* list, the table names and the ORDER BY words are read from the lowercased
\* query, the ON and WHERE texts from the query as written.
ParseSelectErr(q) ==
  FirstErr(<<
    IF q.join_table # "" /\ Strip(q.on) = <<>> THEN "ValueError" ELSE "none",
    IF q.join_table # "" THEN ParseWhereErr(OnText(q)) ELSE "none",
    IF Strip(q.where) # <<>> THEN ParseWhereErr(q.where) ELSE "none",
    IF q.order # <<>> /\ ~(Lower(q.order[2]) \in {"asc", "desc"})
    THEN "ValueError" ELSE "none",
    IF q.limit # <<>> /\ ~IsIntText(q.limit) THEN "ValueError" ELSE "none">>)

ParseSelect(q) ==
  [fields |-> NonEmpty([i \in 1..Len(q.fields) |->
                          LowerText(Strip(q.fields[i]))]),
   table |-> Lower(q.table),
   join_table |-> IF q.join_table # "" THEN <<Lower(q.join_table)>> ELSE <<>>,
   join_on |-> IF q.join_table # "" THEN <<ParseWhere(OnText(q))>> ELSE <<>>,
   where |-> IF Strip(q.where) # <<>> THEN <<ParseWhere(q.where)>> ELSE <<>>,
   order_by |-> IF q.order # <<>>
                THEN <<[field |-> LowerText(q.order[1]),
                        direction |-> Lower(q.order[2])]>>
                ELSE <<>>,
   limit |-> IF q.limit # <<>> THEN <<IntOf(q.limit)>> ELSE <<>>]

\* "if self.limit:" -- a limit that is absent or 0 is false.
LimitSet(sel) == sel.limit # <<>> /\ sel.limit[1] # 0

\* Select.set_default_limit
SetDefaultLimit(sel, limit) ==
  IF ~LimitSet(sel) THEN [sel EXCEPT !.limit = <<limit>>] ELSE sel

\* The active header set of Select.validate
ActiveHeaders(sel) ==
  IF sel.join_table # <<>> /\ HasTable(sel.join_table[1])
  THEN PrefixedHeaders(sel.table) \o PrefixedHeaders(sel.join_table[1])
  ELSE Headers(sel.table)

\* Select.validate
SelectValidateErr(sel) ==
  IF ~HasTable(sel.table) THEN "ValueError"
  ELSE FirstErr(<<
    IF sel.join_table # <<>>
    THEN (IF ~HasTable(sel.join_table[1]) THEN "ValueError"
          ELSE IF sel.join_on = <<>> THEN "ValueError"
          ELSE IF ~InSeq(sel.join_on[1].left_hand, ActiveHeaders(sel))
               THEN "ValueError"
          ELSE IF ~InSeq(sel.join_on[1].right_hand, ActiveHeaders(sel))
               THEN "ValueError"
          ELSE "none")
    ELSE "none",
    IF sel.where # <<>>
    THEN ValidateWhereErr(sel.where[1], ActiveHeaders(sel), sel.table)
    ELSE "none",
    IF sel.order_by # <<>> /\ ~InSeq(sel.order_by[1].field, ActiveHeaders(sel))
    THEN "ValueError" ELSE "none",
    IF LimitSet(sel) /\ sel.limit[1] < 0 THEN "ValueError" ELSE "none",
    IF sel.fields # <<<<"*">>>>
    THEN FirstErr([i \in 1..Len(sel.fields) |->
           IF /\ Contains(sel.fields[i], <<".">>)
              /\ ~HasTable(AsWord(SplitDot(sel.fields[i])[1]))
           THEN "ValueError"
           ELSE IF ~InSeq(sel.fields[i], ActiveHeaders(sel)) THEN "ValueError"
           ELSE "none"])
    ELSE "none">>)

\* The steps of Select.execute, each on the result set of the one before.
IsJoin(sel) == sel.join_table # <<>> /\ sel.join_on # <<>>

SelectScan(sel, fs) == TableRead(sel.table, IsJoin(sel), fs)

SelectJoined(sel, fs) ==
  IF IsJoin(sel)
  THEN InnerJoin(SelectScan(sel, fs), TableRead(sel.join_table[1], TRUE, fs),
                 sel.join_on[1])
  ELSE SelectScan(sel, fs)

SelectFiltered(sel, fs) == Filtered(SelectJoined(sel, fs), sel.where)

\* Projection: "*" keeps the result set, a field list keeps the listed
\* columns by their index among the headers.
Project(rs, fields) ==
  IF fields = <<<<"*">>>> THEN rs
  ELSE [rs EXCEPT
          !.rows = [r \in 1..Len(rs.rows) |->
                      [i \in 1..Len(fields) |->
                         rs.rows[r][IndexOf(RsHeaders(rs), fields[i])]]],
          !.columns = [i \in 1..Len(fields) |->
                         rs.columns[IndexOf(RsHeaders(rs), fields[i])]]]

ProjectErr(rs, fields) ==
  IF fields = <<<<"*">>>> THEN "none"
  ELSE FirstErr([i \in 1..Len(fields) |->
         IF IndexOf(RsHeaders(rs), fields[i]) = 0 THEN "ValueError"
         ELSE "none"])

\* sorted(rows, key, reverse): a stable sort; with reverse the keys descend
\* and rows of equal key still keep their order.
RECURSIVE InsertSorted(_, _, _, _)
InsertSorted(sorted, row, col, desc) ==
  IF sorted = <<>> THEN <<row>>
  ELSE IF (IF desc THEN ValueLess(Head(sorted)[col], row[col])
                   ELSE ValueLess(row[col], Head(sorted)[col]))
       THEN <<row>> \o sorted
       ELSE <<Head(sorted)>> \o InsertSorted(Tail(sorted), row, col, desc)

RECURSIVE SortRows(_, _, _)
SortRows(rows, col, desc) ==
  IF rows = <<>> THEN <<>>
  ELSE InsertSorted(SortRows(SubSeq(rows, 1, Len(rows) - 1), col, desc),
                    rows[Len(rows)], col, desc)

OrderErr(rs, order_by) ==
  IF order_by # <<>> /\ ~InSeq(order_by[1].field, RsHeaders(rs))
  THEN "ValueError" ELSE "none"

OrderMutant(rs, order_by) ==
  IF order_by # <<>>
  THEN LET asc == SortRows(rs.rows,
                           IndexOf(RsHeaders(rs), order_by[1].field), FALSE)
       IN [rs EXCEPT !.rows =
             IF order_by[1].direction = "desc"
             THEN [i \in 1..Len(asc) |-> asc[Len(asc) + 1 - i]]
             ELSE asc]
  ELSE rs

Order(rs, order_by) ==
  IF order_by # <<>>
  THEN [rs EXCEPT !.rows = SortRows(rs.rows,
                                    IndexOf(RsHeaders(rs), order_by[1].field),
                                    order_by[1].direction = "desc")]
  ELSE rs

\* rows[:n] for n > 0
Limit(rs, sel) ==
  IF LimitSet(sel)
  THEN [rs EXCEPT !.rows = SubSeq(rs.rows, 1,
                              IF sel.limit[1] < Len(rs.rows) THEN sel.limit[1]
                              ELSE Len(rs.rows))]
  ELSE rs

SelectProjected(sel, fs) == Project(SelectFiltered(sel, fs), sel.fields)

SelectOrdered(sel, fs) == Order(SelectProjected(sel, fs), sel.order_by)

\* Select.execute
SelectJoinErr(sel, fs) ==
  IF IsJoin(sel)
  THEN Else(TableReadErr(sel.join_table[1], fs),
            InnerJoinErr(SelectScan(sel, fs),
                         TableRead(sel.join_table[1], TRUE, fs),
                         sel.join_on[1]))
  ELSE "none"

SelectExecuteErr(sel, fs) ==
  Else(TableReadErr(sel.table, fs),
    Else(SelectJoinErr(sel, fs),
      Else(FilteredErr(SelectJoined(sel, fs), sel.where),
        Else(ProjectErr(SelectFiltered(sel, fs), sel.fields),
          OrderErr(SelectProjected(sel, fs), sel.order_by)))))

SelectExecute(sel, fs) == Limit(SelectOrdered(sel, fs), sel)

-----------------------------------------------------------------------------
(* The statement dispatch of simple_db.main: parse, validate, execute, and
   for a mutating statement save the catalog.  An exception at any stage ends
   the statement there; every exception the executors can raise is raised
   before Table.write opens the file, and Metadata.save is only reached after
   execute has returned. *)

Outcome(stage, err, fs, nid, result) ==
  [stage |-> stage, err |-> err, files |-> fs, next_id |-> nid,
   result |-> result]

Done(out) == Outcome("done", "none", out.files, out.next_id, out.result)

\* A stage of the dispatch: its exception ends the process with the files and
\* the catalog as they were, otherwise the next stage runs.
StageMutant(stage, err, fs, nid, next) ==
  IF err # "none"
  THEN Outcome(stage, err,
               IF stage = "execute" THEN [t \in DOMAIN fs |-> <<>>] ELSE fs,
               nid, <<>>)
  ELSE next

Stage(stage, err, fs, nid, next) ==
  IF err # "none" THEN Outcome(stage, err, fs, nid, <<>>) ELSE next

InsertStages(ins, fs, nid) ==
  Stage("validate", InsertValidateErr(ins), fs, nid,
    Stage("execute", InsertExecuteErr(ins, fs), fs, nid,
      Done(InsertExecute(ins, fs, nid))))

RunInsert(q, fs, nid) == InsertStages(ParseInsert(q), fs, nid)

UpdateStages(upd, fs, nid) ==
  Stage("validate", UpdateValidateErr(upd), fs, nid,
    Stage("execute", UpdateExecuteErr(upd, fs), fs, nid,
      Done(UpdateExecute(upd, fs, nid))))

RunUpdate(q, fs, nid) ==
  Stage("parse", ParseUpdateErr(q), fs, nid,
    UpdateStages(ParseUpdate(q), fs, nid))

DeleteStages(del, fs, nid) ==
  Stage("validate", DeleteValidateErr(del), fs, nid,
    Stage("execute", DeleteExecuteErr(del, fs), fs, nid,
      Done(DeleteExecute(del, fs, nid))))

RunDelete(q, fs, nid) ==
  Stage("parse", ParseDeleteErr(q), fs, nid,
    DeleteStages(ParseDelete(q), fs, nid))

SelectStages(sel, fs, nid) ==
  Stage("validate", SelectValidateErr(sel), fs, nid,
    Stage("execute", SelectExecuteErr(sel, fs), fs, nid,
      Outcome("done", "none", fs, nid, SelectExecute(sel, fs).rows)))

RunSelect(q, fs, nid) ==
  Stage("parse", ParseSelectErr(q), fs, nid,
    SelectStages(SetDefaultLimit(ParseSelect(q), DefaultLimit), fs, nid))

Run(q, fs, nid) ==
  IF q.kind = "insert" THEN RunInsert(q, fs, nid)
  ELSE IF q.kind = "update" THEN RunUpdate(q, fs, nid)
  ELSE IF q.kind = "delete" THEN RunDelete(q, fs, nid)
  ELSE RunSelect(q, fs, nid)

-----------------------------------------------------------------------------
(* The statements the model issues *)

Word(w) == <<w>>

\* The literals "bo", "'bo'" and "''bo''", and the unquoted bo
QuotedBo == <<DQ, "bo", DQ>>
QuotedTwiceBo == <<DQ, SQ, "bo", SQ, DQ>>
QuotedThriceBo == <<DQ, SQ, SQ, "bo", SQ, SQ, DQ>>

Cmp(left, op, right) == left \o <<SP>> \o op \o <<SP>> \o right

WhereTexts ==
  { <<>>,
    Cmp(Word("name"), <<"=">>, QuotedBo),
    Cmp(Word("name"), <<"=">>, Word("bo")),
    Cmp(Word("age"), <<">", "=">>, Word("7")),
    Cmp(Word("Age"), <<">", "=">>, Word("7")) }

\* The two parenthesised groups of the INSERT statements
InsertGroups ==
  { <<<<Word("name"), Word("age")>>, <<QuotedBo, Word("5")>>>>,
    <<<<Word("name")>>, <<QuotedTwiceBo>>>>,
    <<<<Word("name"), Word("age")>>, <<QuotedThriceBo, Word("7")>>>>,
    <<<<Word("age")>>, <<Word("5")>>>>,
    <<<<Word("Name")>>, <<QuotedBo>>>>,
    <<<<Word("name")>>, <<Word("bo")>>>>,
    <<<<Word("__id"), Word("name")>>, <<Word("2"), QuotedBo>>>>,
    <<<<Word("name"), Word("age")>>, <<QuotedBo>>>>,
    <<<<Word("age")>>, <<Word("x")>>>> }

InsertStatements ==
  { [kind |-> "insert", table |-> "users", fields |-> g[1], values |-> g[2]] :
      g \in InsertGroups }

\* The SET lists of the UPDATE statements
SetLists ==
  { <<Cmp(Word("name"), <<"=">>, QuotedTwiceBo)>>,
    <<Cmp(Word("name"), <<"=">>, Word("bo"))>>,
    <<Cmp(Word("age"), <<"=">>, Word("7"))>>,
    <<Cmp(Word("__id"), <<"=">>, Word("2"))>>,
    <<Cmp(Word("name"), <<"=">>, QuotedBo), Cmp(Word("age"), <<"=">>, Word("5"))>> }

UpdateStatements ==
  { [kind |-> "update", table |-> "users", sets |-> s, where |-> w] :
      s \in SetLists, w \in WhereTexts }

DeleteStatements ==
  { [kind |-> "delete", table |-> "users", where |-> w] : w \in WhereTexts }

SelectStatements ==
  { [kind |-> "select", fields |-> <<f>>, table |-> "users", join_table |-> "",
     on |-> <<>>, where |-> w, order |-> <<>>, limit |-> l] :
      f \in {Word("*"), Word("name")}, w \in WhereTexts,
      l \in {<<>>, Word("0"), Word("1")} }

-----------------------------------------------------------------------------------------------------------------------------------------------------
(* The state machine.  The engine runs one statement per process: a process
   starts on the persisted files and catalog, runs the dispatch on its
   statement (one action per statement kind) and exits.  last is the memory
   of the running process: its statement, how far it got, what it returned,
   and the files and catalog it started from.  held is a history variable:
   the __id values the rows of each table have held so far, recorded by the
   processes of SpecIds. *)

NoStatement == [kind |-> "none"]

Idle ==
  [q |-> NoStatement, stage |-> "none", err |-> "none", result |-> <<>>,
   pre_files |-> <<>>, pre_next_id |-> <<>>]

Record(q, out) ==
  [q |-> q, stage |-> out.stage, err |-> out.err, result |-> out.result,
   pre_files |-> files, pre_next_id |-> next_id]

\* Ingestion of CSV files that hold only a header row: no rows, next_id 1.
Init ==
  /\ files = [t \in {"users", "items"} |-> <<>>]
  /\ next_id = [t \in {"users", "items"} |-> 1]
  /\ last = Idle
  /\ held = [t \in {"users", "items"} |-> {}]

\* One process: it starts when no other runs, and leaves the outcome of its
\* statement in the files, the catalog and its own memory.
Step(q, out) ==
  /\ last = Idle
  /\ files' = out.files
  /\ next_id' = out.next_id
  /\ last' = Record(q, out)
  /\ held' = held

ExecInsert ==
  \E q \in InsertStatements :
    next_id["users"] < MaxNextId /\ Step(q, RunInsert(q, files, next_id))

ExecUpdate == \E q \in UpdateStatements : Step(q, RunUpdate(q, files, next_id))

ExecDelete == \E q \in DeleteStatements : Step(q, RunDelete(q, files, next_id))

ExecSelect == \E q \in SelectStatements : Step(q, RunSelect(q, files, next_id))

\* The process exits; its memory is gone, the files and the catalog stay.
Exit ==
  /\ last # Idle
  /\ last' = Idle
  /\ UNCHANGED <<files, next_id, held>>

Next == ExecInsert \/ ExecUpdate \/ ExecDelete \/ ExecSelect \/ Exit

Spec == Init /\ [][Next]_vars

-----------------------------------------------------------------------------
(* The engine under joins: processes fill the two tables with INSERT
   statements and run SELECT * FROM <left> INNER JOIN <right> ON <predicate>
   over what is stored. *)

QualifiedName(t, c) == <<t, ".", c>>

\* ON predicates that equate a column of one table with a column of the other
OnTexts ==
  { Cmp(QualifiedName("users", "__id"), <<"=">>, QualifiedName("items", "user_id")),
    Cmp(QualifiedName("items", "user_id"), <<"=">>, QualifiedName("users", "__id")),
    Cmp(QualifiedName("users", "age"), <<"=">>, QualifiedName("items", "user_id")),
    Cmp(QualifiedName("users", "__id"), <<"=">>, QualifiedName("items", "__id")),
    Cmp(QualifiedName("users", "name"), <<"=">>, QualifiedName("items", "user_id")) }

JoinStatements ==
  { [kind |-> "select", fields |-> <<Word("*")>>, table |-> t[1],
     join_table |-> t[2], on |-> o, where |-> <<>>, order |-> <<>>,
     limit |-> <<>>] :
      t \in {<<"users", "items">>, <<"items", "users">>}, o \in OnTexts }

FillStatements ==
  { [kind |-> "insert", table |-> "users",
     fields |-> <<Word("name"), Word("age")>>,
     values |-> <<QuotedBo, Word(a)>>] : a \in {"1", "2"} }
  \cup
  { [kind |-> "insert", table |-> "items", fields |-> <<Word("user_id")>>,
     values |-> <<Word(u)>>] : u \in {"1", "2", "3"} }

ExecFill ==
  \E q \in FillStatements :
    next_id[q.table] < MaxNextId /\ Step(q, RunInsert(q, files, next_id))

ExecJoin == \E q \in JoinStatements : Step(q, RunSelect(q, files, next_id))

NextJoin == ExecFill \/ ExecJoin \/ Exit

SpecJoin == Init /\ [][NextJoin]_vars

-----------------------------------------------------------------------------
(* The engine under queries: processes fill users with INSERT statements and
   run SELECT statements with a WHERE of one or two comparisons, an ORDER BY
   and a LIMIT over what is stored. *)

QueryFillStatements ==
  { [kind |-> "insert", table |-> "users",
     fields |-> <<Word("name"), Word("age")>>,
     values |-> <<<<DQ, n, DQ>>, Word(a)>>] :
      n \in {"bo", "cy"}, a \in {"1", "2"} }

QueryWhereTexts ==
  { <<>>,
    Cmp(Word("age"), <<">", "=">>, Word("2")),
    Cmp(Word("name"), <<"=">>, QuotedBo) \o <<SP, "AND", SP>>
      \o Cmp(Word("age"), <<">", "=">>, Word("2")),
    Cmp(Word("name"), <<"=">>, QuotedBo) \o <<SP, "or", SP>>
      \o Cmp(Word("age"), <<">", "=">>, Word("2")) }

QueryOrders ==
  { <<>>, <<Word("age"), "asc">>, <<Word("age"), "desc">>,
    <<Word("name"), "desc">> }

QueryStatements ==
  { [kind |-> "select", fields |-> <<f>>, table |-> "users", join_table |-> "",
     on |-> <<>>, where |-> w, order |-> o, limit |-> l] :
      f \in {Word("*"), Word("name")}, w \in QueryWhereTexts,
      o \in QueryOrders, l \in {<<>>, Word("0"), Word("1")} }

ExecQueryFill ==
  \E q \in QueryFillStatements :
    next_id[q.table] < MaxNextId /\ Step(q, RunInsert(q, files, next_id))

ExecQuery == \E q \in QueryStatements : Step(q, RunSelect(q, files, next_id))

NextQuery == ExecQueryFill \/ ExecQuery \/ Exit

SpecQuery == Init /\ [][NextQuery]_vars

-----------------------------------------------------------------------------
(* The engine under INSERT and DELETE alone: processes insert rows into users
   and delete from it, and the __id values its rows have held are recorded. *)

\* One process, as Step, that also records the ids the files hold after it
Track(q, out) ==
  /\ last = Idle
  /\ files' = out.files
  /\ next_id' = out.next_id
  /\ last' = Record(q, out)
  /\ held' = [t \in DOMAIN held |->
               held[t] \cup {IntOf(out.files[t][r][1]) :
                                r \in 1..Len(out.files[t])}]

IdsInsert ==
  \E q \in QueryFillStatements :
    next_id[q.table] < MaxNextId /\ Track(q, RunInsert(q, files, next_id))

IdsDelete == \E q \in DeleteStatements : Track(q, RunDelete(q, files, next_id))

NextIds == IdsInsert \/ IdsDelete \/ Exit

SpecIds == Init /\ [][NextIds]_vars

-----------------------------------------------------------------------------
(* The command line of simple_db.main on an initialized database: the data
   directory holds the table files and the catalog. *)

\* The attributes of the namespace parse_args returns: one per add_argument
ArgumentNames == {"execute", "import_csv"}

\* The command lines: --import-csv and --execute each absent or given
CommandLines ==
  { [kind |-> "main", import_csv |-> i, execute |-> e] :
      i \in {<<>>, <<"dir">>},
      e \in {<<>>} \cup { <<q>> : q \in InsertStatements \cup UpdateStatements
                                    \cup DeleteStatements
                                    \cup SelectStatements } }

\* simple_db.main: --import-csv runs import_csv, which leaves a data
\* directory that is not empty as it is; otherwise args.import_pg is read
\* before args.execute, and reading an attribute the namespace does not have
\* raises AttributeError; then --execute runs the dispatch; with neither,
\* the help is printed.
Main(args, fs, nid) ==
  IF args.import_csv # <<>> THEN Outcome("import", "none", fs, nid, <<>>)
  ELSE IF ~("import_pg" \in ArgumentNames)
       THEN Outcome("arguments", "AttributeError", fs, nid, <<>>)
  ELSE IF args.execute # <<>> THEN Run(args.execute[1], fs, nid)
  ELSE Outcome("help", "none", fs, nid, <<>>)

ExecMain == \E args \in CommandLines : Step(args, Main(args, files, next_id))

NextMain == ExecMain \/ Exit

SpecMain == Init /\ [][NextMain]_vars

-----------------------------------------------------------------------------
(* The engine under joins with a predicate of two comparisons: SELECT * FROM
   users INNER JOIN items ON <comparison> AND|OR <comparison>, and a join
   that orders a str column against an int column. *)

JoinOnTexts ==
  { Cmp(QualifiedName("users", "__id"), <<"=">>, QualifiedName("items", "user_id"))
      \o <<SP, "AND", SP>>
      \o Cmp(QualifiedName("users", "age"), <<"=">>, QualifiedName("items", "__id")),
    Cmp(QualifiedName("users", "__id"), <<"=">>, QualifiedName("items", "user_id"))
      \o <<SP, "or", SP>>
      \o Cmp(QualifiedName("users", "age"), <<"=">>, QualifiedName("items", "user_id")),
    Cmp(QualifiedName("users", "name"), <<">">>, QualifiedName("items", "user_id")) }

JoinOnStatements ==
  { [kind |-> "select", fields |-> <<Word("*")>>, table |-> "users",
     join_table |-> "items", on |-> o, where |-> <<>>, order |-> <<>>,
     limit |-> <<>>] : o \in JoinOnTexts }

ExecJoinOn == \E q \in JoinOnStatements : Step(q, RunSelect(q, files, next_id))

NextJoinOn == ExecFill \/ ExecJoinOn \/ Exit

SpecJoinOn == Init /\ [][NextJoinOn]_vars

-----------------------------------------------------------------------------
(* The engine under statements that raise: processes fill users with INSERT
   statements and run INSERT, UPDATE and DELETE statements that the parser,
   the validator or the executor rejects. *)

FaultStatements ==
  { [kind |-> "insert", table |-> "users", fields |-> <<Word("name")>>,
     values |-> <<Word("bo")>>],
    [kind |-> "insert", table |-> "users", fields |-> <<Word("__id")>>,
     values |-> <<Word("5")>>],
    [kind |-> "update", table |-> "users", sets |-> <<Word("name")>>,
     where |-> <<>>],
    [kind |-> "update", table |-> "users",
     sets |-> <<Cmp(Word("name"), <<"=">>, Word("bo"))>>, where |-> <<>>],
    [kind |-> "update", table |-> "users",
     sets |-> <<Cmp(Word("age"), <<"=">>, Word("7"))>>,
     where |-> Cmp(Word("age"), <<"=">>, Word("abc"))],
    [kind |-> "delete", table |-> "users", where |-> Word("name")],
    [kind |-> "delete", table |-> "users",
     where |-> Cmp(Word("Age"), <<">", "=">>, Word("7"))],
    [kind |-> "delete", table |-> "users",
     where |-> Cmp(Word("age"), <<"=">>, Word("abc"))],
    [kind |-> "delete", table |-> "users",
     where |-> Cmp(Word("name"), <<"=">>, <<DQ>>)] }

ExecFault == \E q \in FaultStatements : Step(q, Run(q, files, next_id))

NextFaults == ExecQueryFill \/ ExecFault \/ Exit

SpecFaults == Init /\ [][NextFaults]_vars

-----------------------------------------------------------------------------
(* The predicate parser on single comparisons: processes parse the text
   <left> <operator> <right>, written with or without blanks around the
   operator, for each of the six operators. *)

Comparisons ==
  { [kind |-> "where", left |-> l, operator |-> OperatorOrder[k], right |-> r,
     text |-> IF blanks THEN Cmp(l, OperatorText(OperatorOrder[k]), r)
              ELSE l \o OperatorText(OperatorOrder[k]) \o r] :
      l \in {Word("name"), Word("age"), QualifiedName("users", "age")},
      k \in 1..6,
      r \in {Word("7"), Word("bo"), QuotedBo, QualifiedName("items", "user_id")},
      blanks \in BOOLEAN }

\* One process that calls __parse_condition on the text and keeps what it
\* returns
ExecParse ==
  \E q \in Comparisons :
    Step(q, Stage("parse", ParseConditionErr(q.text), files, next_id,
                  Outcome("done", "none", files, next_id,
                          <<ParseCondition(q.text)>>)))

NextParse == ExecParse \/ Exit

SpecParse == Init /\ [][NextParse]_vars

-----------------------------------------------------------------------------
(* Properties.  They speak of the process that has just run: its statement
   last.q, the stage it reached (last.stage = "done": parsed, validated and
   executed), the files and catalog it started from and the ones it left. *)

Ran(kind) == last.q.kind = kind

Executed == last.stage = "done"

\* The table a statement names, and its rows before and after the statement
LastTable == Lower(last.q.table)

RowsBefore == last.pre_files[LastTable]

RowsAfter == files[LastTable]

\* The __id a stored row carries
RowId(row) == IntOf(row[1])

\* The WHERE of the statement that ran, as the parser returns it
HasWhere == Strip(last.q.where) # <<>> /\ ParseWhereErr(last.q.where) = "none"

LastWhere == ParseWhere(last.q.where)

\* SELECT <fields> FROM <table> [WHERE <text>], as a user writes it
SelectFrom(table, fields, where) ==
  [kind |-> "select", fields |-> fields, table |-> table, join_table |-> "",
   on |-> <<>>, where |-> where, order |-> <<>>, limit |-> <<>>]

\* C1: for every table, the catalog's next_id is at least max(__id over the
\* stored rows) + 1, after any sequence of validated and executed statements.
C1_NextIdAboveStoredIds ==
  \A t \in {"users", "items"} :
    \A r \in 1..Len(files[t]) : next_id[t] >= RowId(files[t][r]) + 1

\* C2: an executed INSERT makes the table's stored row count exactly one
\* larger, appends one row whose __id is the next_id before the INSERT, and
\* leaves next_id one larger than before.
C2_InsertAppendsRowWithNextId ==
  (Ran("insert") /\ Executed) =>
    /\ Len(RowsAfter) = Len(RowsBefore) + 1
    /\ RowId(RowsAfter[Len(RowsAfter)]) = last.pre_next_id[LastTable]
    /\ next_id[LastTable] = last.pre_next_id[LastTable] + 1

C2_Witness ==
  /\ Ran("insert")
  /\ Executed
  /\ Len(RowsBefore) >= 1
  /\ RowId(RowsAfter[Len(RowsAfter)]) = 2

\* C3: Insert.validate and Update.validate raise a validation error whenever
\* __id is among the statement's fields (the INSERT field list, the UPDATE SET
\* list).
StatementFields ==
  IF Ran("insert") THEN ParseInsert(last.q).fields
  ELSE ParseUpdate(last.q).fields

C3_IdNotAddressable ==
  (/\ Ran("insert") \/ (Ran("update") /\ ParseUpdateErr(last.q) = "none")
   /\ InSeq(<<"__id">>, StatementFields))
  => (last.stage = "validate" /\ last.err = "ValueError")

\* C4: a SELECT with LIMIT n returns the first min(n, k) rows of the k rows
\* the steps before the limit produce, for every n >= 0.
Min(a, b) == IF a < b THEN a ELSE b

C4_LimitKeepsFirstRows ==
  (/\ Ran("select")
   /\ Executed
   /\ last.q.limit # <<>>
   /\ IntOf(last.q.limit) >= 0)
  => LET produced == SelectOrdered(ParseSelect(last.q), files).rows
     IN last.result
          = SubSeq(produced, 1, Min(IntOf(last.q.limit), Len(produced)))

\* C5: for SELECT, UPDATE and DELETE alike, validate raises when the left
\* side of the predicate is a str column and the right side is neither an
\* active header nor a quoted string, and the statement is not executed.
IsStrColumn(t, name) ==
  /\ IndexOf(Headers(t), name) # 0
  /\ Columns(t)[IndexOf(Headers(t), name)].type = "str"

IsQuotedLiteral(s) == s # <<>> /\ IsQuotedString(s)

C5_UnquotedStrLiteralRejected ==
  (/\ Ran("select") \/ Ran("update") \/ Ran("delete")
   /\ HasWhere
   /\ IsStrColumn(LastTable, LastWhere.left_hand)
   /\ ~InSeq(LastWhere.right_hand, Headers(LastTable))
   /\ ~IsQuotedLiteral(LastWhere.right_hand))
  => (last.stage = "validate" /\ last.err # "none")

\* C6: a column written in a WHERE predicate in any letter case is resolved
\* to the same column as its lowercase form: the statement ends as the
\* statement with the lowercased name does, with the same rows.
WithLowercaseColumn(q) == [q EXCEPT !.where = [@ EXCEPT ![1] = Lower(@)]]

C6_ColumnCaseInsensitive ==
  (/\ Ran("select") \/ Ran("update") \/ Ran("delete")
   /\ last.q.where # <<>>)
  => LET other == Run(WithLowercaseColumn(last.q), last.pre_files,
                      last.pre_next_id)
     IN /\ last.stage = other.stage
        /\ last.err = other.err
        /\ last.result = other.result
        /\ files = other.files

\* C7: after DELETE FROM T WHERE P has executed, a SELECT from T with the
\* same predicate P, if it is accepted, returns zero rows.
SelectAfter(fields) ==
  RunSelect(SelectFrom(last.q.table, fields, last.q.where), files, next_id)

C7_DeleteThenSelectEmpty ==
  (/\ Ran("delete")
   /\ Executed
   /\ SelectAfter(<<Word("*")>>).stage = "done")
  => SelectAfter(<<Word("*")>>).result = <<>>

\* C8: UPDATE T SET f=v WHERE P returns the __id values, in stored order, of
\* the rows that satisfied P before the update; after it each of those rows
\* holds the decoded literal v in field f; and a subsequent SELECT of f
\* restricted to the rows matching P yields only the updated value.
RECURSIVE IdsAccepted(_, _)
IdsAccepted(rs, where) ==
  IF rs.rows = <<>> THEN <<>>
  ELSE (IF where = <<>> \/ WhereAccepts(where[1], Head(rs.rows), rs.columns) = "true"
        THEN <<Head(rs.rows)[1].v>> ELSE <<>>)
       \o IdsAccepted([rs EXCEPT !.rows = Tail(rs.rows)], where)

C8_UpdateSetsMatchingRows ==
  (Ran("update") /\ Executed) =>
    LET upd == ParseUpdate(last.q)
        before == TableRead(upd.table, FALSE, last.pre_files)
    IN /\ last.result = IdsAccepted(before, upd.where)
       /\ \A i \in 1..Len(upd.fields) :
            LET c == IndexOf(Headers(upd.table), upd.fields[i])
                v == ParseValue(upd.values[i], Columns(upd.table)[c])
            IN /\ \A r \in 1..Len(before.rows) :
                    InSeq(before.rows[r][1].v, last.result)
                      => RowsAfter[r][c] = FormatValue(v)
               /\ SelectAfter(<<upd.fields[i]>>).stage = "done"
                    => \A r \in 1..Len(SelectAfter(<<upd.fields[i]>>).result) :
                         SelectAfter(<<upd.fields[i]>>).result[r] = <<v>>

\* C9: Table.write(Table.read()) leaves every stored cell unchanged, except
\* that float and datetime cells are normalised, for every cell content the
\* engine itself can have written.
Normalised(type) == type = "float" \/ type = "datetime"

C9_ReadWriteKeepsCells ==
  \A t \in {"users", "items"} :
    TableReadErr(t, files) = "none" =>
      \A r \in 1..Len(files[t]) : \A c \in 1..Len(files[t][r]) :
        \/ Normalised(Columns(t)[c].type)
        \/ TableWrite(t, TableRead(t, FALSE, files))[r][c] = files[t][r][c]


\* C10: inner_join of L and R with a predicate that equates a column of one
\* with a column of the other returns exactly the concatenated pairs (l, r)
\* of L x R whose two key values are equal, each as often as it occurs in the
\* product, in left-major order, under the concatenated prefixed columns.
KeyOf(name, l, r, lcolumns, rcolumns) ==
  IF IndexOf(ColumnNames(lcolumns), name) # 0
  THEN l[IndexOf(ColumnNames(lcolumns), name)]
  ELSE r[IndexOf(ColumnNames(rcolumns), name)]

RECURSIVE MatchesOfRow(_, _, _, _, _)
MatchesOfRow(l, rrows, on, lcolumns, rcolumns) ==
  IF rrows = <<>> THEN <<>>
  ELSE (IF KeyOf(on.left_hand, l, Head(rrows), lcolumns, rcolumns)
             = KeyOf(on.right_hand, l, Head(rrows), lcolumns, rcolumns)
        THEN <<l \o Head(rrows)>> ELSE <<>>)
       \o MatchesOfRow(l, Tail(rrows), on, lcolumns, rcolumns)

RECURSIVE MatchingPairs(_, _, _, _, _)
MatchingPairs(lrows, rrows, on, lcolumns, rcolumns) ==
  IF lrows = <<>> THEN <<>>
  ELSE MatchesOfRow(Head(lrows), rrows, on, lcolumns, rcolumns)
       \o MatchingPairs(Tail(lrows), rrows, on, lcolumns, rcolumns)

JoinLeft == TableRead(ParseSelect(last.q).table, TRUE, files)

JoinRight == TableRead(ParseSelect(last.q).join_table[1], TRUE, files)

JoinRan == Ran("select") /\ Executed /\ last.q.join_table # ""

C10_InnerJoinKeepsMatchingPairs ==
  JoinRan =>
    LET on == ParseSelect(last.q).join_on[1]
        joined == InnerJoin(JoinLeft, JoinRight, on)
    IN /\ last.result = MatchingPairs(JoinLeft.rows, JoinRight.rows, on,
                                      JoinLeft.columns, JoinRight.columns)
       /\ joined.rows = last.result
       /\ ColumnNames(joined.columns)
            = PrefixedHeaders(JoinLeft.table_name)
                \o PrefixedHeaders(JoinRight.table_name)

\* A join that kept one left row twice and dropped a pair of the product
C10_Witness ==
  /\ JoinRan
  /\ Len(last.result) >= 2
  /\ Len(last.result) < Len(JoinLeft.rows) * Len(JoinRight.rows)
  /\ \E i \in 1..(Len(last.result) - 1) :
       SubSeq(last.result[i], 1, 3) = SubSeq(last.result[i + 1], 1, 3)

\* The rows the SELECT that ran read from its table
RowsRead == TableRead(LastTable, FALSE, last.pre_files)

\* The combination rule on one row: root and AND-child, else root or
\* OR-child, else the root
RuleAccepts(where, row, columns) ==
  LET root == SatisfiesCondition(where, row, columns) = "true"
      child == SatisfiesCondition(Child(where), row, columns) = "true"
  IN IF where.and_where # <<>> THEN root /\ child
     ELSE IF where.or_where # <<>> THEN root \/ child
     ELSE root

RECURSIVE Accepted(_, _, _)
Accepted(rows, where, columns) ==
  IF rows = <<>> THEN <<>>
  ELSE (IF RuleAccepts(where, Head(rows), columns) THEN <<Head(rows)>>
        ELSE <<>>) \o Accepted(Tail(rows), where, columns)

\* SELECT * FROM <table> WHERE <predicate> has run to its end: what it
\* returned is what ResultSet.where returned
WhereRan ==
  /\ Ran("select") /\ Executed /\ HasWhere
  /\ last.q.join_table = "" /\ last.q.fields = <<Word("*")>>
  /\ last.q.order = <<>> /\ last.q.limit = <<>>

\* C11: ResultSet.where returns, in their original order, exactly the rows
\* that satisfy root and child when the predicate has an AND-child, root or
\* child when it has an OR-child, and the root otherwise.
C11_WhereCombinesRootAndChild ==
  WhereRan =>
    /\ last.result = Accepted(RowsRead.rows, LastWhere, RowsRead.columns)
    /\ RsWhere(RowsRead, LastWhere).rows = last.result

\* An AND predicate over two rows: the first satisfies the root and not the
\* child and is dropped, the second satisfies both and is kept
C11_Witness ==
  /\ WhereRan
  /\ LastWhere.and_where # <<>>
  /\ Len(RowsRead.rows) = 2
  /\ last.result = <<RowsRead.rows[2]>>
  /\ SatisfiesCondition(LastWhere, RowsRead.rows[1], RowsRead.columns) = "true"

\* SELECT * FROM <table> [WHERE <predicate>] ORDER BY <field> <direction>
\* has run to its end
OrderRan ==
  /\ Ran("select") /\ Executed
  /\ last.q.join_table = "" /\ last.q.fields = <<Word("*")>>
  /\ last.q.order # <<>> /\ last.q.limit = <<>>

\* The rows that reach the ordering step of that SELECT
OrderInput ==
  IF HasWhere THEN Accepted(RowsRead.rows, LastWhere, RowsRead.columns)
  ELSE RowsRead.rows

\* The index of the ORDER BY column and the direction
OrderColumn == IndexOf(RsHeaders(RowsRead), LowerText(last.q.order[1]))

Descending == Lower(last.q.order[2]) = "desc"

\* C12: the rows an ORDER BY returns are a permutation of the rows that
\* reach it, sorted by the key ascending or descending, and rows of equal key
\* keep their original relative order, in both directions.
C12_OrderByStable ==
  OrderRan =>
    /\ Len(last.result) = Len(OrderInput)
    /\ \A i \in 1..Len(OrderInput) : InSeq(OrderInput[i], last.result)
    /\ \A i, j \in 1..Len(last.result) :
         i < j =>
           LET a == last.result[i][OrderColumn]
               b == last.result[j][OrderColumn]
           IN /\ IF Descending THEN ~ValueLess(a, b) ELSE ~ValueLess(b, a)
              /\ (~ValueLess(a, b) /\ ~ValueLess(b, a)) =>
                   IndexOf(OrderInput, last.result[i])
                     < IndexOf(OrderInput, last.result[j])

\* A descending ORDER BY over two rows of equal key: both are returned, in
\* their stored order
C12_Witness ==
  /\ OrderRan /\ Descending
  /\ Len(last.result) = 2
  /\ last.result[1][OrderColumn] = last.result[2][OrderColumn]
  /\ last.result[1][1].v < last.result[2][1].v

\* SELECT <fields> FROM <table> [WHERE ..] [ORDER BY ..] [LIMIT n] has run to
\* its end
QueryRan == Ran("select") /\ Executed /\ last.q.join_table = ""

\* The field list of that SELECT as header names
FieldNames == [i \in 1..Len(last.q.fields) |-> LowerText(Strip(last.q.fields[i]))]

\* The steps composed in the order where, project, order, limit on the rows
\* read: the projection of the rows the WHERE accepts among the full rows,
\* then their ordering by the key among the projected columns, then the
\* first n of them
ProjectedRows ==
  IF last.q.fields = <<Word("*")>> THEN OrderInput
  ELSE [r \in 1..Len(OrderInput) |->
          [i \in 1..Len(FieldNames) |->
             OrderInput[r][IndexOf(RsHeaders(RowsRead), FieldNames[i])]]]

OrderedRows ==
  IF last.q.order = <<>> THEN ProjectedRows
  ELSE SortRows(ProjectedRows,
                IF last.q.fields = <<Word("*")>> THEN OrderColumn
                ELSE IndexOf(FieldNames, LowerText(last.q.order[1])),
                Descending)

LimitedRows ==
  IF last.q.limit = <<>> THEN OrderedRows
  ELSE SubSeq(OrderedRows, 1, Min(IntOf(last.q.limit), Len(OrderedRows)))

\* C13: what Select.execute returns is the composition where, project, order,
\* limit of the rows read: the WHERE is evaluated on the unprojected rows and
\* LIMIT n keeps the first n rows of the ordered sequence.
C13_StepsComposeInOrder == QueryRan => last.result = LimitedRows

\* C14: in a sequence of INSERT and DELETE statements a DELETE leaves next_id
\* unchanged, next_id never decreases, and an executed INSERT stores a row
\* whose __id no row of the table has held before, deleted rows included.
C14_DeletedIdsNotReused ==
  [][/\ \A t \in DOMAIN next_id : next_id'[t] >= next_id[t]
     /\ (last = Idle /\ last'.q.kind = "delete") => next_id' = next_id
     /\ (last = Idle /\ last'.q.kind = "insert" /\ last'.stage = "done") =>
          LET t == Lower(last'.q.table)
          IN /\ Len(files'[t]) = Len(files[t]) + 1
             /\ ~(RowId(files'[t][Len(files'[t])]) \in held[t])]_vars

\* An INSERT into the table after its only row was deleted: the new row has
\* the __id 2, not the 1 of the deleted row
C14_Witness ==
  /\ Ran("insert") /\ Executed
  /\ RowsBefore = <<>>
  /\ Len(RowsAfter) = 1
  /\ RowId(RowsAfter[1]) = 2
  /\ held[LastTable] = {1, 2}

\* C15: a command line with --execute and without --import-csv, on an
\* initialized database, reaches the statement dispatch: the process ends in
\* the parse, validate or execute stage of its statement or past them.
C15_ExecuteReachesDispatch ==
  (/\ Ran("main")
   /\ last.q.execute # <<>>
   /\ last.q.import_csv = <<>>)
  => last.stage \in {"parse", "validate", "execute", "done"}

\* C16: an executed UPDATE keeps the number and the order of the stored rows,
\* leaves every row whose __id is not among the affected ids identical in
\* every column, and in the affected rows leaves every column that SET does
\* not name unchanged.
C16_UpdateChangesOnlySetFields ==
  (Ran("update") /\ Executed) =>
    /\ Len(RowsAfter) = Len(RowsBefore)
    /\ \A r \in 1..Len(RowsBefore) :
         IF InSeq(RowId(RowsBefore[r]), last.result)
         THEN \A c \in 1..Len(Headers(LastTable)) :
                InSeq(Headers(LastTable)[c], ParseUpdate(last.q).fields)
                  \/ RowsAfter[r][c] = RowsBefore[r][c]
         ELSE RowsAfter[r] = RowsBefore[r]

\* A join whose ON predicate has an AND or OR child has run to its end
JoinOnRan ==
  /\ JoinRan
  /\ LET on == ParseSelect(last.q).join_on[1]
     IN on.and_where # <<>> \/ on.or_where # <<>>

\* C17: a join whose ON predicate has an AND or OR child keeps a pair of the
\* product iff the whole predicate holds of it under the combination rule of
\* ResultSet.where, not merely its root comparison.
C17_JoinAppliesWholePredicate ==
  JoinOnRan =>
    last.result = Accepted(JoinPairs(JoinLeft, JoinRight),
                           ParseSelect(last.q).join_on[1],
                           JoinLeft.columns \o JoinRight.columns)

\* C18: a SELECT that passes Select.validate executes without raising, for
\* every table content consistent with the catalog.
C18_ValidatedSelectExecutes == Ran("select") => last.stage # "execute"

C20_StoredIdsDistinct ==
  \A t \in DOMAIN files :
    \A i, j \in 1..Len(files[t]) :
      i # j => RowId(files[t][i]) # RowId(files[t][j])

\* C21: for each of the six operators, parsing the single comparison
\* <left> <operator> <right>, whose operands hold no operator character,
\* returns a predicate with that operator, that left side and that right side.
C21_OperatorParsedAsItself ==
  Ran("where") =>
    /\ last.stage = "done"
    /\ last.result = <<Where(last.q.left, last.q.right, last.q.operator)>>

====
